---- MODULE Spec2Model ----
(***************************************************************************)
(* Model of git-suggest-reviewers (src/src/main.rs).                       *)
(*                                                                         *)
(* main() resolves two revisions, computes their merge base, diffs the     *)
(* merge base against the compare revision and then walks the deltas of    *)
(* the diff in index order.  For every delta it obtains the patch, runs    *)
(* the chain of skip tests, blames the old side of the file and, for       *)
(* every old-side line of every hunk, increments the count of the author   *)
(* the blame names.  Finally it sorts the counts and prints them.          *)
(*                                                                         *)
(* The answers of the git backend (whether the start-up calls succeed,     *)
(* the deltas of the diff, the result of each blame, the hunks of each     *)
(* patch) are the inputs of a run; they are chosen in Init and never       *)
(* change.  The program state is the position in the loops, the            *)
(* `modified` map, what was logged and what was printed.                   *)
(***************************************************************************)
EXTENDS Integers, Sequences, FiniteSets

\* ------------------------------------------------------------------ bounds
MaxDeltas == 3
MaxHunks == 2
MaxLine == 3

\* --------------------------------------------------------------- constants
\* default of --max-blame-size
max_blame_size == 1073741824

\* ------------------------------------------------------------------ inputs
\* Option<String>: <<>> is None, <<s>> is Some(s).
Names == {<<>>, <<"ann">>}
Emails == {<<>>, <<"ann@example.org">>}
\* the key type of `modified`: (Option<String>, Option<String>)
Authors == Names \X Emails
RunAuthors == {<<<<"ann">>, <<"ann@example.org">>>>, <<<<>>, <<>>>>}

\* git2::FileMode values the file of an existing side can carry
FileModes == {"Blob", "BlobExecutable", "Link", "Commit"}
\* DiffFile::size() of an existing side, at and above the ceiling
Sizes == {max_blame_size, max_blame_size + 1}
\* the side of a delta that does not exist (the old side of an added file, the
\* new side of a deleted one): the backend gives it mode 0 and size 0
AbsentFile == [mode |-> "Unreadable", binary |-> FALSE, size |-> 0, exists |-> FALSE]
\* what main() reads of a DiffFile
DiffFiles ==
    [mode : FileModes, binary : BOOLEAN, size : Sizes, exists : {TRUE}]
      \cup {AbsentFile}
\* Patch::from_diff: Ok(Some(patch)), Ok(None), Err(e)
PatchResults == {"Some", "None", "Err"}

\* the first fallible start-up call that fails, or "ok"
StartupOutcomes ==
    {"ok", "discover", "base", "compare", "compare_tree", "merge_base",
     "merge_base_tree", "diff_tree_to_tree", "find_similar"}

\* what main() reads of a hunk: patch.hunk(i) is Ok or Err, and the old range
Hunk(start, lines, ok) == [old_start |-> start, old_lines |-> lines, ok |-> ok]

Hunks ==
    {Hunk(s, l, ok) : s \in 1..MaxLine, l \in 1..MaxLine, ok \in BOOLEAN}

\* The hunks of a patch are in ascending order and do not overlap; with
\* context_lines(3) a hunk has no old line only when the old file is empty,
\* and then it is the only hunk.
HunkSeqOk(hs) ==
    /\ \A i \in 1..Len(hs) : hs[i].old_start + hs[i].old_lines <= MaxLine + 1
    /\ \A i \in 1..(Len(hs) - 1) :
          hs[i].old_start + hs[i].old_lines <= hs[i + 1].old_start

HunkSeqs ==
    {<<Hunk(0, 0, TRUE)>>}
      \cup {hs \in UNION {[1..n -> Hunks] : n \in 0..MaxHunks} : HunkSeqOk(hs)}

\* A blame covers the lines 1..Len: entry l is the final signature of line l.
BlameSeqs == UNION {[1..n -> Authors] : n \in 0..MaxLine}

Delta(patch, old, new, blame_ok, lines, hunks) ==
    [patch |-> patch, old_file |-> old, new_file |-> new,
     blame |-> [ok |-> blame_ok, lines |-> lines], hunks |-> hunks]

PlainFile == [mode |-> "Blob", binary |-> FALSE, size |-> max_blame_size,
              exists |-> TRUE]

\* ------------------------------------------------------------------- state
VARIABLES
    startup,      \* input: outcome of the start-up calls
    diff,         \* input: the deltas of the diff, with the backend's answers
    pc,           \* "start", "deltas", "hunks", "done" (Ok(())), "failed" (Err)
    deltaidx,     \* loop variable of the delta loop (0-based)
    hunkidx,      \* loop variable of the hunk loop (0-based)
    modified,     \* HashMap<(Option<String>, Option<String>), usize>
    blame_calls,  \* number of repo.blame_file calls made for each delta
    debug_log,    \* what the filter chain logged for each delta
    stdout        \* the lines printed

vars == <<startup, diff, pc, deltaidx, hunkidx, modified, blame_calls,
          debug_log, stdout>>

num_deltas == Len(diff)


\* -------------------------------------------------------- pure operations
\* The chain of skip tests, in the order main() evaluates them; "blaming"
\* when none applies.
FilterDecision(delta) ==
    IF delta.old_file.mode # "Blob" \/ delta.new_file.mode # "Blob"
    THEN "not_blob"
    ELSE IF delta.old_file.binary \/ delta.new_file.binary
    THEN "binary"
    ELSE IF delta.old_file.size > max_blame_size
              \/ delta.new_file.size > max_blame_size
    THEN "too_large"
    ELSE IF ~delta.old_file.exists \/ ~delta.new_file.exists
    THEN "created_or_deleted"
    ELSE "blaming"

\* Blame::get_line: Some(entry) for a line the blame covers, None otherwise
get_line_ZeroBased(lines, line) ==
    IF line + 1 \in 1..Len(lines) THEN <<lines[line + 1]>> ELSE <<>>

get_line(lines, line) ==
    IF line \in 1..Len(lines) THEN <<lines[line]>> ELSE <<>>

\* modified.entry(author).and_modify(|e| *e += 1).or_insert(1)
AddLine_Overwrite(m, author) ==
    [k \in DOMAIN m \cup {author} |-> IF k = author THEN 1 ELSE m[k]]

AddLine(m, author) ==
    [k \in DOMAIN m \cup {author} |->
        IF k # author THEN m[k]
        ELSE IF author \in DOMAIN m THEN m[author] + 1 ELSE 1]

\* the exclusive end of hunk.old_start()..(hunk.old_start() + hunk.old_lines())
HunkEnd_Inclusive(hunk) == hunk.old_start + hunk.old_lines + 1

HunkEnd(hunk) == hunk.old_start + hunk.old_lines

\* the body of the line loop, for one line
CountLine(m, lines, line) ==
    IF get_line(lines, line) # <<>>
    THEN AddLine(m, get_line(lines, line)[1])
    ELSE m

\* for line in start..end { ... }
RECURSIVE CountLines(_, _, _, _)
CountLines(m, lines, line, end) ==
    IF line >= end THEN m
    ELSE CountLines(CountLine(m, lines, line), lines, line + 1, end)

\* usize::cmp
Ordering(x, y) == IF x < y THEN "Less" ELSE IF x = y THEN "Equal" ELSE "Greater"

\* the comparator of sort_unstable_by: |a, b| b.1.cmp(&a.1)
SortCmp_Ascending(a, b) == Ordering(a[2], b[2])

SortCmp(a, b) == Ordering(b[2], a[2])

RECURSIVE Insert(_, _)
Insert(x, s) ==
    IF s = <<>> THEN <<x>>
    ELSE IF SortCmp(x, Head(s)) = "Greater"
    THEN <<Head(s)>> \o Insert(x, Tail(s))
    ELSE <<x>> \o s

\* sort_unstable_by, as an insertion sort of the collected entries
RECURSIVE SortUnstableBy(_)
SortUnstableBy(s) ==
    IF s = <<>> THEN <<>> ELSE Insert(Head(s), SortUnstableBy(Tail(s)))

\* Option::unwrap_or
UnwrapOr(opt, default) == IF opt = <<>> THEN default ELSE opt[1]

\* println!("{}\t{} ({})", lines, name.unwrap_or("?"), email.unwrap_or("?"))
PrintLine(entry) ==
    <<entry[2], UnwrapOr(entry[1][1], "?"), UnwrapOr(entry[1][2], "?")>>

\* modified.into_iter().collect::<Vec<_>>(): the entries, in any order
IterationOrders(m) ==
    {s \in [1..Cardinality(DOMAIN m) -> DOMAIN m] :
        \A i, j \in DOMAIN s : i # j => s[i] # s[j]}

Collect(m, order) == [i \in DOMAIN order |-> <<order[i], m[order[i]]>>]

\* ------------------------------------------------------------------ actions
CurrentDelta == diff[deltaidx + 1]
CurrentHunk == CurrentDelta.hunks[hunkidx + 1]

\* Repository::discover .. diff.find_similar all succeed
Startup ==
    /\ pc = "start"
    /\ startup = "ok"
    /\ pc' = "deltas"
    /\ UNCHANGED <<startup, diff, deltaidx, hunkidx, modified, blame_calls,
                   debug_log, stdout>>

\* one of the start-up calls fails and `?` returns the error from main()
StartupFail ==
    /\ pc = "start"
    /\ startup # "ok"
    /\ pc' = "failed"
    /\ UNCHANGED <<startup, diff, deltaidx, hunkidx, modified, blame_calls,
                   debug_log, stdout>>

\* Patch::from_diff gives Err(e) (warned) or Ok(None): on to the next delta
PatchUnavailable ==
    /\ pc = "deltas"
    /\ deltaidx < num_deltas
    /\ CurrentDelta.patch # "Some"
    /\ debug_log' = [debug_log EXCEPT ![deltaidx + 1] =
                        IF CurrentDelta.patch = "Err" THEN "patch_error" ELSE @]
    /\ deltaidx' = deltaidx + 1
    /\ UNCHANGED <<startup, diff, pc, hunkidx, modified, blame_calls, stdout>>

\* one of the skip tests applies: its reason is logged, on to the next delta
SkipDelta ==
    /\ pc = "deltas"
    /\ deltaidx < num_deltas
    /\ CurrentDelta.patch = "Some"
    /\ FilterDecision(CurrentDelta) # "blaming"
    /\ debug_log' = [debug_log EXCEPT ![deltaidx + 1] = FilterDecision(CurrentDelta)]
    /\ deltaidx' = deltaidx + 1
    /\ UNCHANGED <<startup, diff, pc, hunkidx, modified, blame_calls, stdout>>

\* repo.blame_file is called and fails: logged, on to the next delta
BlameErr ==
    /\ pc = "deltas"
    /\ deltaidx < num_deltas
    /\ CurrentDelta.patch = "Some"
    /\ FilterDecision(CurrentDelta) = "blaming"
    /\ ~CurrentDelta.blame.ok
    /\ debug_log' = [debug_log EXCEPT ![deltaidx + 1] = "blaming"]
    /\ blame_calls' = [blame_calls EXCEPT ![deltaidx + 1] = @ + 1]
    /\ deltaidx' = deltaidx + 1
    /\ UNCHANGED <<startup, diff, pc, hunkidx, modified, stdout>>

\* repo.blame_file is called and succeeds: the hunk loop starts
BlameOk ==
    /\ pc = "deltas"
    /\ deltaidx < num_deltas
    /\ CurrentDelta.patch = "Some"
    /\ FilterDecision(CurrentDelta) = "blaming"
    /\ CurrentDelta.blame.ok
    /\ debug_log' = [debug_log EXCEPT ![deltaidx + 1] = "blaming"]
    /\ blame_calls' = [blame_calls EXCEPT ![deltaidx + 1] = @ + 1]
    /\ pc' = "hunks"
    /\ hunkidx' = 0
    /\ UNCHANGED <<startup, diff, deltaidx, modified, stdout>>

\* patch.hunk(hunkidx)? fails: the error is returned from main()
HunkErr ==
    /\ pc = "hunks"
    /\ hunkidx < Len(CurrentDelta.hunks)
    /\ ~CurrentHunk.ok
    /\ pc' = "failed"
    /\ UNCHANGED <<startup, diff, deltaidx, hunkidx, modified, blame_calls,
                   debug_log, stdout>>

\* one iteration of the hunk loop: every old line of the hunk is looked up
ProcessHunk ==
    /\ pc = "hunks"
    /\ hunkidx < Len(CurrentDelta.hunks)
    /\ CurrentHunk.ok
    /\ modified' = CountLines(modified, CurrentDelta.blame.lines,
                              CurrentHunk.old_start, HunkEnd(CurrentHunk))
    /\ hunkidx' = hunkidx + 1
    /\ UNCHANGED <<startup, diff, pc, deltaidx, blame_calls, debug_log, stdout>>

\* the hunk loop is over: on to the next delta
EndHunks ==
    /\ pc = "hunks"
    /\ hunkidx = Len(CurrentDelta.hunks)
    /\ pc' = "deltas"
    /\ deltaidx' = deltaidx + 1
    /\ hunkidx' = 0
    /\ UNCHANGED <<startup, diff, modified, blame_calls, debug_log, stdout>>

\* the delta loop is over: sort, print, return Ok(())
Report ==
    /\ pc = "deltas"
    /\ deltaidx = num_deltas
    /\ \E order \in IterationOrders(modified) :
          LET modified_sorted == SortUnstableBy(Collect(modified, order))
          IN  stdout' = [i \in DOMAIN modified_sorted |->
                            PrintLine(modified_sorted[i])]
    /\ pc' = "done"
    /\ UNCHANGED <<startup, diff, deltaidx, hunkidx, modified, blame_calls,
                   debug_log>>

Next ==
    \/ Startup
    \/ StartupFail
    \/ PatchUnavailable
    \/ SkipDelta
    \/ BlameErr
    \/ BlameOk
    \/ HunkErr
    \/ ProcessHunk
    \/ EndHunks
    \/ Report

\* ----------------------------------------------------------- initial states
SeqsUpTo(S, n) == UNION {[1..k -> S] : k \in 0..n}

\* the state after `let mut modified = HashMap::new()`, for a diff drawn from
\* `diffs` (there is no diff when a start-up call fails)
InitWith(diffs) ==
    /\ startup \in StartupOutcomes
    /\ diff \in (IF startup = "ok" THEN diffs ELSE {<<>>})
    /\ pc = "start"
    /\ deltaidx = 0
    /\ hunkidx = 0
    /\ modified = <<>>
    /\ blame_calls = [i \in 1..Len(diff) |-> 0]
    /\ debug_log = [i \in 1..Len(diff) |-> ""]
    /\ stdout = <<>>

BlameOf(a) == [l \in 1..MaxLine |-> a]

\* deltas that are not counted: no patch, skipped, blame error, hunk error
FailingDeltas ==
    {Delta("Err", PlainFile, PlainFile, TRUE, BlameOf(<<<<>>, <<>>>>), <<Hunk(1, 1, TRUE)>>),
     Delta("None", PlainFile, PlainFile, TRUE, BlameOf(<<<<>>, <<>>>>), <<Hunk(1, 1, TRUE)>>),
     Delta("Some", PlainFile, AbsentFile, TRUE, BlameOf(<<<<>>, <<>>>>), <<Hunk(1, 1, TRUE)>>),
     Delta("Some", [PlainFile EXCEPT !.binary = TRUE], [PlainFile EXCEPT !.binary = TRUE],
           TRUE, BlameOf(<<<<>>, <<>>>>), <<Hunk(1, 1, TRUE)>>),
     Delta("Some", PlainFile, PlainFile, FALSE, BlameOf(<<<<>>, <<>>>>), <<Hunk(1, 1, TRUE)>>),
     Delta("Some", PlainFile, PlainFile, TRUE, BlameOf(<<<<>>, <<>>>>), <<Hunk(1, 1, FALSE)>>),
     Delta("Some", PlainFile, PlainFile, TRUE, BlameOf(<<<<>>, <<>>>>),
           <<Hunk(1, 1, TRUE), Hunk(2, 1, FALSE)>>)}

\* runs of several deltas: the deltas above and blamable files of one and of two hunks
RunBlameSeqs ==
    {BlameOf(a) : a \in RunAuthors}
      \cup {[l \in 1..MaxLine |-> IF l = 1 THEN <<<<"ann">>, <<"ann@example.org">>>>
                                  ELSE <<<<>>, <<>>>>]}

RunHunkSeqs ==
    {<<Hunk(1, 2, TRUE)>>, <<Hunk(1, 1, TRUE), Hunk(3, 1, TRUE)>>}

RunDeltas ==
    FailingDeltas
      \cup {Delta("Some", PlainFile, PlainFile, TRUE, ls, hs) :
                ls \in RunBlameSeqs, hs \in RunHunkSeqs}

Init == InitWith(SeqsUpTo(RunDeltas, MaxDeltas))

Spec == Init /\ [][Next]_vars

\* runs of one delta: every blame result and every hunk sequence
LineDeltas ==
    FailingDeltas
      \cup {Delta("Some", PlainFile, PlainFile, TRUE, ls, hs) :
                ls \in BlameSeqs, hs \in HunkSeqs}

InitLines == InitWith({<<d>> : d \in LineDeltas})

SpecLines == InitLines /\ [][Next]_vars

\* runs of one delta: every combination of what the skip tests read
FilterHunkSeqs ==
    {<<>>, <<Hunk(1, 1, TRUE)>>, <<Hunk(1, 1, TRUE), Hunk(2, 1, TRUE)>>,
     <<Hunk(1, 1, FALSE)>>}

\* the two sides of a delta: at least one of them exists
FilePairs == {f \in DiffFiles \X DiffFiles : f[1].exists \/ f[2].exists}

FilterDeltas ==
    {Delta(p, f[1], f[2], b, BlameOf(<<<<"ann">>, <<>>>>), hs) :
        p \in PatchResults, f \in FilePairs, b \in BOOLEAN, hs \in FilterHunkSeqs}

InitFilter == InitWith({<<d>> : d \in FilterDeltas})

SpecFilter == InitFilter /\ [][Next]_vars


\* ================================================================== claims
\* delta i (1-based) has been handled completely
DeltaDone(i) == i <= deltaidx

\* the old-side lines of a hunk
OldLines(hunk) == hunk.old_start .. (hunk.old_start + hunk.old_lines - 1)

\* a delta whose processing meets no failure and no skip
Succeeds(d) ==
    /\ d.patch = "Some"
    /\ FilterDecision(d) = "blaming"
    /\ d.blame.ok
    /\ \A h \in DOMAIN d.hunks : d.hunks[h].ok

\* the hunk lines of delta d, among its first n hunks, that the blame gives to a
LinesOf(d, n, a) ==
    {p \in (1..n) \X (1..Len(d.blame.lines)) :
        /\ p[1] \in DOMAIN d.hunks
        /\ p[2] \in OldLines(d.hunks[p[1]])
        /\ d.blame.lines[p[2]] = a}

\* the number of lines the deltas of ds that succeed give to a
TotalFor(ds, a) ==
    Cardinality(UNION {{<<i, p[1], p[2]>> : p \in LinesOf(ds[i], Len(ds[i].hunks), a)} :
                          i \in {j \in DOMAIN ds : Succeeds(ds[j])}})

Totals(ds) == [a \in {b \in Authors : TotalFor(ds, b) > 0} |-> TotalFor(ds, a)]

\* a regular file, executable or not (the mode test of the file filter as specified)
RegularBlob(f) == f.mode \in {"Blob", "BlobExecutable"}

EitherBinary(d) == d.old_file.binary \/ d.new_file.binary

UnderCeiling(d) ==
    d.old_file.size <= max_blame_size /\ d.new_file.size <= max_blame_size

\* C1: for every handled delta that has a patch, the number of blame calls is
\* exactly one when both sides exist, neither is binary, the file is a
\* regular-file blob and it is under the size ceiling, and exactly zero
\* otherwise; a deleted or binary delta is never blamed and adds no line.
C1_OneBlamePerEligibleDelta ==
    \A i \in 1..num_deltas :
        (DeltaDone(i) /\ diff[i].patch = "Some") =>
            /\ blame_calls[i] =
                  IF /\ diff[i].old_file.exists /\ diff[i].new_file.exists
                     /\ ~EitherBinary(diff[i])
                     /\ RegularBlob(diff[i].old_file)
                     /\ UnderCeiling(diff[i])
                  THEN 1 ELSE 0
            /\ (~diff[i].new_file.exists \/ EitherBinary(diff[i])) =>
                  (blame_calls[i] = 0 /\ (num_deltas = 1 => modified = <<>>))

\* the decision of the file filter as specified: the first reason, in the order
\* SkipCreated, SkipDeleted, SkipNotBlob, SkipBinary, SkipTooLarge, that applies,
\* given whether the not-a-blob condition holds
SpecifiedDecision(d, not_blob) ==
    IF ~d.old_file.exists THEN "SkipCreated"
    ELSE IF ~d.new_file.exists THEN "SkipDeleted"
    ELSE IF not_blob THEN "SkipNotBlob"
    ELSE IF EitherBinary(d) THEN "SkipBinary"
    ELSE IF ~UnderCeiling(d) THEN "SkipTooLarge"
    ELSE "Process"

\* the not-a-blob condition, on the old-side mode alone and on the mode of
\* either side
OldNotBlob(d) == ~RegularBlob(d.old_file)
AnyNotBlob(d) == ~RegularBlob(d.old_file) \/ ~RegularBlob(d.new_file)
AnyNotPlainBlob(d) == d.old_file.mode # "Blob" \/ d.new_file.mode # "Blob"

\* the logged reason says what the specified decision says (the program has one
\* message for created and deleted files, which stands for either)
ReportsAs(logged, decision) ==
    \/ decision \in {"SkipCreated", "SkipDeleted"} /\ logged = "created_or_deleted"
    \/ decision = "SkipNotBlob" /\ logged = "not_blob"
    \/ decision = "SkipBinary" /\ logged = "binary"
    \/ decision = "SkipTooLarge" /\ logged = "too_large"
    \/ decision = "Process" /\ logged = "blaming"

\* C2: for every handled delta that is skipped, the reported skip reason is
\* the first one, in the order SkipCreated, SkipDeleted, SkipNotBlob,
\* SkipBinary, SkipTooLarge, whose condition holds (whichever way the mode
\* condition is read: old side or either side, executable counted as a blob
\* or not); so a deleted file is reported as deleted and a created one as
\* created.
C2_SkipReasonPriority ==
    \A i \in 1..num_deltas :
        (DeltaDone(i) /\ diff[i].patch = "Some" /\ debug_log[i] # "blaming") =>
            \E not_blob \in {OldNotBlob(diff[i]), AnyNotBlob(diff[i]),
                             AnyNotPlainBlob(diff[i])} :
                ReportsAs(debug_log[i], SpecifiedDecision(diff[i], not_blob))

\* C3: a handled delta with both sides existing, non-binary and within the
\* size ceiling is blamed exactly when its old-side mode is regular or
\* executable-regular, whatever the new-side mode is.
C3_ExecutableIsBlob ==
    \A i \in 1..num_deltas :
        (DeltaDone(i) /\ diff[i].patch = "Some"
            /\ diff[i].old_file.exists /\ diff[i].new_file.exists
            /\ ~EitherBinary(diff[i]) /\ UnderCeiling(diff[i])) =>
                (debug_log[i] = "blaming" <=> RegularBlob(diff[i].old_file))

\* C4: once the start-up has succeeded the run is never aborted: it ends with
\* every delta handled and with the full counts of the deltas that succeeded.
C4_FileFailureNeverAborts ==
    startup = "ok" =>
        /\ pc # "failed"
        /\ pc = "done" => (deltaidx = num_deltas /\ modified = Totals(diff))

\* C5: the run ends with an error, and prints nothing, exactly when one of the
\* start-up calls (resolution, merge base, diff) fails.
C5_FailsOnlyAtStartup ==
    /\ pc = "failed" => (startup # "ok" /\ stdout = <<>>)
    /\ startup # "ok" => (pc \in {"start", "failed"} /\ stdout = <<>>)

\* every line of both hunks of d is covered by the blame and belongs to a
TwoHunksAllBy(d, a) ==
    /\ Succeeds(d)
    /\ Len(d.hunks) = 2
    /\ \A h \in 1..2 : \A l \in OldLines(d.hunks[h]) :
          l \in 1..Len(d.blame.lines) /\ d.blame.lines[l] = a

\* C6: when the only delta of a finished run is a blamed file with two hunks
\* whose lines all belong to one author, the map has exactly that author, with
\* the sum of the old line counts of both hunks, and one line is printed.
C6_TwoHunksOneAuthor ==
    (pc = "done" /\ num_deltas = 1) =>
        \A a \in Authors :
            TwoHunksAllBy(diff[1], a) =>
                /\ DOMAIN modified = {a}
                /\ modified[a] = diff[1].hunks[1].old_lines + diff[1].hunks[2].old_lines
                /\ Len(stdout) = 1
                /\ stdout[1][1] = modified[a]

C6_Witness ==
    /\ pc = "done"
    /\ num_deltas = 1
    /\ \E a \in Authors :
          /\ TwoHunksAllBy(diff[1], a)
          /\ diff[1].hunks[1].old_lines # diff[1].hunks[2].old_lines
          /\ modified[a] = 3

Permutations(n) ==
    {p \in [1..n -> 1..n] : \A i, j \in 1..n : i # j => p[i] # p[j]}

\* C7: the map of a finished run gives every author the sum of the lines the
\* deltas attribute to that author, and no other entry, whatever the order in
\* which the same deltas come.
C7_OrderIndependentSum ==
    pc = "done" =>
        \A p \in Permutations(num_deltas) :
            modified = Totals([i \in 1..num_deltas |-> diff[p[i]]])

C7_Witness ==
    /\ pc = "done"
    /\ num_deltas >= 2
    /\ Succeeds(diff[1]) /\ Succeeds(diff[2])
    /\ diff[1] # diff[2]
    /\ Cardinality(DOMAIN modified) = 2
    /\ \E a \in DOMAIN modified :
          /\ TotalFor(<<diff[1]>>, a) > 0
          /\ TotalFor(<<diff[2]>>, a) > TotalFor(<<diff[1]>>, a)
          /\ modified[a] >= 3

\* an absent name or email is printed as the placeholder
Placeholder(opt) == IF opt = <<>> THEN "?" ELSE opt[1]

\* C8: the report has exactly one line per key of the final map, the keys
\* being the distinct (name, email) pairs that were attributed a line, each
\* line carrying the key's count and its name and email with "?" for an
\* absent one, in non-increasing order of count.
C8_ReportSortedOnePerKey ==
    pc = "done" =>
        /\ DOMAIN modified = {a \in Authors : TotalFor(diff, a) > 0}
        /\ Len(stdout) = Cardinality(DOMAIN modified)
        /\ \A k \in DOMAIN modified : \E i \in DOMAIN stdout :
              stdout[i] = <<modified[k], Placeholder(k[1]), Placeholder(k[2])>>
        /\ \A i \in 1..(Len(stdout) - 1) : stdout[i][1] >= stdout[i + 1][1]

C8_Witness ==
    /\ pc = "done"
    /\ Len(stdout) = 2
    /\ stdout[1] = <<2, "?", "?">>
    /\ stdout[2] = <<1, "ann", "?">>

\* C10: while a blamed file is processed, after any number of its hunks, the
\* map gives every author exactly the number of old-side lines of those hunks
\* that the blame covers and gives to that author; an uncovered line counts
\* for nobody and fails nothing.
C10_CoveredLinesCountedOnce ==
    (pc = "hunks" /\ num_deltas = 1) =>
        /\ \A a \in Authors :
              IF LinesOf(diff[1], hunkidx, a) = {}
              THEN a \notin DOMAIN modified
              ELSE a \in DOMAIN modified
                     /\ modified[a] = Cardinality(LinesOf(diff[1], hunkidx, a))
        /\ \A h \in 1..hunkidx : diff[1].hunks[h].ok

C10_Witness ==
    /\ pc = "hunks"
    /\ num_deltas = 1
    /\ hunkidx = 2
    /\ \E l \in OldLines(diff[1].hunks[2]) : l > Len(diff[1].blame.lines)
    /\ Cardinality(DOMAIN modified) = 2

====
